---- MODULE Spec2Model ----
(***************************************************************************)
(* Benders decomposition for the multi-item multi-period capacitated lot   *)
(* sizing problem (bendersDual.py): the worker LP (WorkerLPPrimal), the    *)
(* in-out stabilization loop (newIOCycle), the iterative driver            *)
(* (bendersDual) and the lazy-constraint driver (bendersCallbackScheme).   *)
(*                                                                         *)
(* Numbers.  Setup values y, costs and right-hand sides are fixed-point    *)
(* integers in units of 1/YS, so that y = 1 is YS, the perturbation        *)
(* _delta = 0.00002 is 2 and _lambda = 0.2 is 1/5.  Instance data are      *)
(* integers and a[j][t] = 1 (readSmallInstances), which makes the worker   *)
(* LP a transportation problem: its basic dual solutions and its Farkas    *)
(* rays are integral, so the LP solver is modelled exactly by enumerating  *)
(* them.  The solver's choice among several optimal basic solutions is     *)
(* left open (every one of them is a possible outcome).                    *)
(***************************************************************************)
EXTENDS Integers, FiniteSets, Sequences, TLC

\* fixed-point resolution: y = 1.0 is YS (chosen so that _delta is 2)
YS == 100000
\* _INFTY = sys.float_info.max, as a number above every cost of the model
INFTY == 1000000000
\* _EPSI = sys.float_info.epsilon: below the resolution, so x < _EPSI iff x < 1
EPSI == 1
\* the master relaxation is solved over the lattice {0, 1/YSteps, .., 1}
YSteps == 2

Min(a, b) == IF a < b THEN a ELSE b
Max(a, b) == IF a > b THEN a ELSE b
SetMax(S) == CHOOSE x \in S : \A z \in S : z <= x
SetMin(S) == CHOOSE x \in S : \A z \in S : x <= z

RECURSIVE Sum(_, _)
Sum(fn, S) == IF S = {} THEN 0
              ELSE LET x == CHOOSE x \in S : TRUE
                   IN  fn[x] + Sum(fn, S \ {x})

(***************************************************************************)
(* Instance: the data read by Instance.__init__.                           *)
(***************************************************************************)
Items(inp)   == 0 .. (inp.nI - 1)
Periods(inp) == 0 .. (inp.nP - 1)
JT(inp)      == Items(inp) \X Periods(inp)

\* one item: d, f, h, m given per period
OneItem(P, dd, cc, mm, ff, hh) ==
    [nI |-> 1, nP |-> P,
     d   |-> [jt \in (0..0) \X (0..P-1) |-> dd[jt[2] + 1]],
     cap |-> [t \in 0..P-1 |-> cc[t + 1]],
     a   |-> [jt \in (0..0) \X (0..P-1) |-> 1],
     m   |-> [jt \in (0..0) \X (0..P-1) |-> mm],
     f   |-> [jt \in (0..0) \X (0..P-1) |-> ff],
     h   |-> [jt \in (0..0) \X (0..P-1) |-> hh]]

(***************************************************************************)
(* WorkerLPPrimal: the production LP for fixed setups.                     *)
(*   variables   z[j][t][r], r >= t, cost (r-t)*h[j][t], >= 0              *)
(*   capacity[t] sum_j sum_{r>=t} a[j][t]*z[j][t][r] <= cap[t]-sum_j m*y   *)
(*   demand[j][r] sum_{t<=r} z[j][t][r] = d[j][r]                          *)
(*   logic[j][t][r] z[j][t][r] <= d[j][r]*y[j][t]                          *)
(***************************************************************************)
\* the triples (j, t, r) WorkerLPPrimal.__init__ creates a variable for
Tri(inp) == {jtr \in Items(inp) \X Periods(inp) \X Periods(inp) : jtr[3] >= jtr[2]}

\* objective coefficient of z[j][t][r]
Cost(inp, j, t, r) == (r - t) * inp.h[<<j, t>>]

\* right-hand sides set by solveSubPrimal (in units of 1/YS)
CapRhs(inp, y, t) ==
    inp.cap[t] * YS - Sum([j \in Items(inp) |-> inp.m[<<j, t>>] * y[<<j, t>>]], Items(inp))
LogicRhs(inp, y, j, t, r) == inp.d[<<j, r>>] * y[<<j, t>>]
DemandRhs(inp, j, r) == inp.d[<<j, r>>] * YS

\* The right-hand sides of the rows of the worker LP: b.cap[t] of
\* capacity.t, b.demand[j,r] of demand.j.r, b.logic[j,t,r] of logic.j.t.r.
\* WorkerLPPrimal.__init__ creates capacity and logic rows with rhs 0.0
\* and demand rows with rhs d[j][r].
InitRhs(inp) ==
    [cap    |-> [t \in Periods(inp) |-> 0],
     demand |-> [jr \in JT(inp) |-> DemandRhs(inp, jr[1], jr[2])],
     logic  |-> [jtr \in Tri(inp) |-> 0]]
\* an update that sets the capacity rows only
SetRhsCapacityOnly(b, inp, y) ==
    [b EXCEPT !.cap = [t \in Periods(inp) |-> CapRhs(inp, y, t)]]
\* the set_rhs calls of solveSubPrimal(ySol) on a worker whose rows hold b
SetRhs(b, inp, y) ==
    [b EXCEPT !.cap   = [t \in Periods(inp) |-> CapRhs(inp, y, t)],
              !.logic = [jtr \in Tri(inp) |->
                           LogicRhs(inp, y, jtr[1], jtr[2], jtr[3])]]
\* the right-hand sides of the worker LP at y
RhsOf(inp, y) ==
    [cap    |-> [t \in Periods(inp) |-> CapRhs(inp, y, t)],
     demand |-> [jr \in JT(inp) |-> DemandRhs(inp, jr[1], jr[2])],
     logic  |-> [jtr \in Tri(inp) |-> LogicRhs(inp, y, jtr[1], jtr[2], jtr[3])]]

\* Dual values of a basic solution.  The dual of logic[j][t][r] is fixed by
\* the duals lam of capacity and om of demand: either the slack of the row
\* is basic (dual 0) or z[j][t][r] is (reduced cost 0).
EpsOf(inp, lam, om, j, t, r) ==
    Min(0, Cost(inp, j, t, r) - inp.a[<<j, t>>] * lam[t] - om[<<j, r>>])

\* every basic dual value is a sum of arc costs along a tree path
CostSum(inp) == Sum([jtr \in Tri(inp) |-> Cost(inp, jtr[1], jtr[2], jtr[3])], Tri(inp))
LamBox(inp) == [Periods(inp) -> (0 - CostSum(inp)) .. 0]
\* demand[j][r] holds a basic z[j][t][r], t <= r, whose logic slack is basic
OmCand(inp, lam, j, r) ==
    {Cost(inp, j, t, r) - inp.a[<<j, t>>] * lam[t] : t \in 0 .. r}

\* the part of the dual objective that belongs to demand[j][r] when its
\* dual is w
OmVal(inp, b, lam, j, r, w) ==
    w * b.demand[<<j, r>>]
    + Sum([t \in 0 .. r |->
             Min(0, Cost(inp, j, t, r) - inp.a[<<j, t>>] * lam[t] - w)
             * b.logic[<<j, t, r>>]], 0 .. r)
OmBest(inp, b, lam, j, r) ==
    SetMax({OmVal(inp, b, lam, j, r, w) : w \in OmCand(inp, lam, j, r)})
LamVal(inp, b, lam) ==
    Sum([t \in Periods(inp) |-> lam[t] * b.cap[t]], Periods(inp))
    + Sum([jr \in JT(inp) |-> OmBest(inp, b, lam, jr[1], jr[2])], JT(inp))

\* Farkas rays (dual_farkas).  The ray of the row the dual simplex stops
\* at is the indicator of a connected part C of the transportation network:
\* lam[t] = -1 for the capacity rows in C, om[j,r] = 1 for the demand rows
\* in C, and every demand row outside C keeps a production period outside C.
RayEps(inp, lam, om, j, t, r) == Min(0, 0 - inp.a[<<j, t>>] * lam[t] - om[<<j, r>>])
RayVal(inp, b, lam, om) ==
    Sum([t \in Periods(inp) |-> lam[t] * b.cap[t]], Periods(inp))
    + Sum([jr \in JT(inp) |-> om[jr] * b.demand[jr]], JT(inp))
    + Sum([jtr \in Tri(inp) |->
             RayEps(inp, lam, om, jtr[1], jtr[2], jtr[3])
             * b.logic[jtr]], Tri(inp))
RECURSIVE RayReach(_, _, _, _)
RayReach(cT, cW, gT, gW) ==
    LET nW == gW \cup {jr \in cW : \E t \in gT : t <= jr[2]}
        nT == gT \cup {t \in cT : \E jr \in nW : t <= jr[2]}
    IN  IF nW = gW /\ nT = gT THEN gT = cT /\ gW = cW
        ELSE RayReach(cT, cW, nT, nW)
RayBasic(inp, lam, om) ==
    LET cT == {t \in Periods(inp) : lam[t] = -1}
        cW == {jr \in JT(inp) : om[jr] = 1}
    IN  /\ (cT # {} \/ cW # {})
        /\ IF cT # {}
           THEN RayReach(cT, cW, {CHOOSE t \in cT : TRUE}, {})
           ELSE Cardinality(cW) = 1
        /\ \A jr \in JT(inp) \ cW : \E t \in 0 .. jr[2] : t \notin cT
FarkasRays(inp, b) ==
    {lo \in [Periods(inp) -> {-1, 0}] \X [JT(inp) -> {0, 1}] :
        RayBasic(inp, lo[1], lo[2]) /\ RayVal(inp, b, lo[1], lo[2]) > 0}

\* cpx.solution.get_status() of the worker LP with right-hand sides b
WorkerInfeasible(inp, b) == FarkasRays(inp, b) # {}
\* cpx.solution.get_objective_value() of the worker LP (units of 1/YS)
WorkerObjective(inp, b) == SetMax({LamVal(inp, b, lam) : lam \in LamBox(inp)})
\* status and value of the worker LP whose right-hand sides are those of y
SubInfeasible(inp, y) == WorkerInfeasible(inp, RhsOf(inp, y))
SubOpt(inp, y) == WorkerObjective(inp, RhsOf(inp, y))

\* A dual solution is basic when the tight rows connect every constraint to
\* a capacity row whose slack is basic (lam[t] = 0): gT, gW are the capacity
\* and demand rows connected so far.
RECURSIVE Grounded(_, _, _, _, _)
Grounded(inp, lam, om, gT, gW) ==
    LET Tight(j, t, r) == Cost(inp, j, t, r) - inp.a[<<j, t>>] * lam[t] = om[<<j, r>>]
        nW == gW \cup {jr \in JT(inp) :
                         \E t \in gT : t <= jr[2] /\ Tight(jr[1], t, jr[2])}
        nT == gT \cup {t \in Periods(inp) :
                         \E jr \in gW : jr[2] >= t /\ Tight(jr[1], t, jr[2])}
    IN  IF nW = gW /\ nT = gT
        THEN gT = Periods(inp) /\ gW = JT(inp)
        ELSE Grounded(inp, lam, om, nT, nW)
IsBasic(inp, lam, om) ==
    Grounded(inp, lam, om, {t \in Periods(inp) : lam[t] = 0}, {})

\* the functions om with om[jr] an optimal candidate for every jr in keys
RECURSIVE OmChoices(_, _, _, _)
OmChoices(inp, b, lam, keys) ==
    IF keys = {} THEN {[k \in {} |-> 0]}
    ELSE LET jr   == CHOOSE k \in keys : TRUE
             best == OmBest(inp, b, lam, jr[1], jr[2])
             ws   == {w \in OmCand(inp, lam, jr[1], jr[2]) :
                        OmVal(inp, b, lam, jr[1], jr[2], w) = best}
             rest == OmChoices(inp, b, lam, keys \ {jr})
         IN  {(jr :> w) @@ om : w \in ws, om \in rest}

\* the optimal basic dual solutions <<lam, om>> (get_dual_values)
OptimalDuals(inp, b) ==
    UNION {UNION {{<<lam, om>> : om \in {o \in OmChoices(inp, b, lam, JT(inp)) :
                                           IsBasic(inp, lam, o)}} :
                    lam \in {l \in LamBox(inp) : LamVal(inp, b, l) = zs}} :
             zs \in {WorkerObjective(inp, b)}}

(***************************************************************************)
(* Cuts.  A cut is  sum coeff[j,t]*y[j,t] + zc*zHat <= rhs  with y, zHat   *)
(* and rhs in units of 1/YS; type 1 = feasibility, 2 = optimality, 0 = the *)
(* empty cutLhs left when the LP status is neither.                        *)
(***************************************************************************)
\* optimality cut, solveSubPrimal lines 1019-1047
OptCoeff(inp, lam, om, j, t) ==
    inp.m[<<j, t>>] * lam[t]
    - Sum([r \in t .. (inp.nP - 1) |->
             0 - EpsOf(inp, lam, om, j, t, r) * inp.d[<<j, r>>]], t .. (inp.nP - 1))
\* an optimality cut whose right-hand side leaves out the coeff*ySol terms
OptCutUnshifted(inp, y, zs, lam, om) ==
    [type  |-> 2,
     coeff |-> [jt \in JT(inp) |-> OptCoeff(inp, lam, om, jt[1], jt[2])],
     zc    |-> -1,
     rhs   |-> 0 - zs]
OptCut(inp, y, zs, lam, om) ==
    LET coeff == [jt \in JT(inp) |-> OptCoeff(inp, lam, om, jt[1], jt[2])]
    IN  [type  |-> 2,
         coeff |-> coeff,
         zc    |-> -1,
         rhs   |-> (0 - zs)
                   + Sum([jt \in JT(inp) |-> coeff[jt] * y[jt]], JT(inp))]

\* feasibility cut, solveSubPrimal lines 968-1017
\* the coefficient with the setup-time term taken with the opposite sign
FeasCoeffPlusSetup(inp, lam, om, j, t) ==
    inp.m[<<j, t>>] * lam[t]
    + Sum([r \in t .. (inp.nP - 1) |->
             RayEps(inp, lam, om, j, t, r) * inp.d[<<j, r>>]], t .. (inp.nP - 1))
FeasCoeff(inp, lam, om, j, t) ==
    (0 - inp.m[<<j, t>>] * lam[t])
    + Sum([r \in t .. (inp.nP - 1) |->
             RayEps(inp, lam, om, j, t, r) * inp.d[<<j, r>>]], t .. (inp.nP - 1))
FeasCut(inp, lam, om) ==
    [type  |-> 1,
     coeff |-> [jt \in JT(inp) |-> FeasCoeff(inp, lam, om, jt[1], jt[2])],
     zc    |-> 0,
     rhs   |-> (0 - Sum([jt \in JT(inp) |-> inp.d[jt] * om[jt] * YS], JT(inp)))
               - Sum([t \in Periods(inp) |-> inp.cap[t] * lam[t] * YS], Periods(inp))]

\* cutLhs, cutRhs when the status is neither infeasible nor optimal
EmptyCut(inp) ==
    [type |-> 0, coeff |-> [jt \in JT(inp) |-> 0], zc |-> 0, rhs |-> 0]

\* the status is neither: cutType stays 0, zSub stays -1
SolveSubPrimalOther(inp) == [cutType |-> 0, zSub |-> -1, cut |-> EmptyCut(inp)]

\* a worker that classifies no status
SolveSubPrimalUnclassified(inp, b, y) == {SolveSubPrimalOther(inp)}
\* cpx.solve() on the worker whose rows hold the right-hand sides b, and
\* the cut built from its solution for the point y (lines 961-1055): the
\* results [cutType, zSub, cut] the call can return
WorkerSolve(inp, b, y) ==
    UNION {IF rays # {}
           THEN {[cutType |-> 1, zSub |-> -1, cut |-> FeasCut(inp, lo[1], lo[2])] :
                   lo \in rays}
           ELSE UNION {{[cutType |-> 2, zSub |-> zs,
                         cut |-> OptCut(inp, y, zs, lo[1], lo[2])] :
                          lo \in OptimalDuals(inp, b)} :
                         zs \in {WorkerObjective(inp, b)}} :
             rays \in {FarkasRays(inp, b)}}
\* solveSubPrimal(ySol) on a worker whose rows hold b: the set_rhs calls,
\* then the solve
SolveSubPrimal(inp, b, y) ==
    UNION {WorkerSolve(inp, nb, y) : nb \in {SetRhs(b, inp, y)}}

(***************************************************************************)
(* WorkerLPDual: the explicit dual of the worker LP,                       *)
(*   max  sum_t l[t]*(cap[t] - sum_j m[j][t]*y[j][t])                      *)
(*        + sum_jr w[j][r]*d[j][r] + sum_jtr e[j][t][r]*d[j][r]*y[j][t]    *)
(*   dual.j.t.r  w[j][r] + a[j][t]*l[t] + e[j][t][r] <= (r-t)*h[j][t]      *)
(*   l <= 0, w >= 0, e <= 0                                                *)
(***************************************************************************)
\* the objective coefficients: those of w are set by __init__, those of l
\* and e by solveSubDual(ySol) (units of 1/YS)
DualObjective(inp, y) ==
    [cap    |-> [t \in Periods(inp) |->
                   inp.cap[t] * YS
                   - Sum([j \in Items(inp) |-> inp.m[<<j, t>>] * y[<<j, t>>]],
                         Items(inp))],
     demand |-> [jr \in JT(inp) |-> inp.d[jr] * YS],
     logic  |-> [jtr \in Tri(inp) |->
                   inp.d[<<jtr[1], jtr[3]>>] * y[<<jtr[1], jtr[2]>>]]]

\* The value the loops over t and r leave in r when the coefficients of the
\* feasibility cut are computed: the last period.
DualStaleR(inp) == inp.nP - 1
\* coefficient of y[j][t] in the feasibility cut of solveSubDual: the
\* comprehension runs over its own t, with r the value the loops left
DualFeasCoeff(inp, lam, om, j, t) ==
    (0 - inp.m[<<j, t>>] * lam[t])
    + Sum([t2 \in Periods(inp) |->
             inp.d[<<j, DualStaleR(inp)>>]
             * RayEps(inp, lam, om, j, t2, DualStaleR(inp))], Periods(inp))
DualFeasCut(inp, lam, om) ==
    [type  |-> 1,
     coeff |-> [jt \in JT(inp) |-> DualFeasCoeff(inp, lam, om, jt[1], jt[2])],
     zc    |-> 0,
     rhs   |-> Sum([t \in Periods(inp) |->
                      (0 - inp.cap[t] * lam[t] * YS)
                      - Sum([j \in Items(inp) |-> inp.d[<<j, t>>] * om[<<j, t>>] * YS],
                            Items(inp))], Periods(inp))]
\* coefficient of y[j][t] in the optimality cut of solveSubDual
DualOptCoeff(inp, lam, om, j, t) ==
    inp.m[<<j, t>>] * lam[t]
    + Sum([r \in t .. (inp.nP - 1) |->
             inp.d[<<j, r>>] * EpsOf(inp, lam, om, j, t, r)], t .. (inp.nP - 1))
DualOptCut(inp, y, zs, lam, om) ==
    LET coeff == [jt \in JT(inp) |-> DualOptCoeff(inp, lam, om, jt[1], jt[2])]
    IN  [type  |-> 2,
         coeff |-> coeff,
         zc    |-> -1,
         rhs   |-> (0 - zs)
                   + Sum([jt \in JT(inp) |-> coeff[jt] * y[jt]], JT(inp))]
\* solveSubDual(ySol): the results [cutType, zSub, cut] the call can return.
\* The dual LP is unbounded along a ray (get_ray) when the worker LP is
\* infeasible, and zSub then keeps its initial value _INFTY.
SolveSubDual(inp, y) ==
    UNION {UNION {IF rays # {}
           THEN {[cutType |-> 1, zSub |-> INFTY,
                  cut |-> DualFeasCut(inp, lo[1], lo[2])] : lo \in rays}
           ELSE UNION {{[cutType |-> 2, zSub |-> zs,
                         cut |-> DualOptCut(inp, y, zs, lo[1], lo[2])] :
                          lo \in OptimalDuals(inp, c)} :
                         zs \in {WorkerObjective(inp, c)}} :
             rays \in {FarkasRays(inp, c)}} : c \in {DualObjective(inp, y)}}

(***************************************************************************)
(* Master (createMaster): min sum f*y + zHat, zHat >= 0, y in [0,1] or     *)
(* binary, subject to the cuts added so far.                               *)
(***************************************************************************)
CutLhsY(inp, c, y) == Sum([jt \in JT(inp) |-> c.coeff[jt] * y[jt]], JT(inp))
\* y admits some zHat
MasterFeasibleY(inp, cs, y) ==
    \A c \in cs : c.zc = 0 => CutLhsY(inp, c, y) <= c.rhs
\* the least zHat y admits (zHat has lower bound 0 and objective 1)
ZHatOf(inp, cs, y) ==
    SetMax({0} \cup {CutLhsY(inp, c, y) - c.rhs : c \in {c \in cs : c.zc = -1}})
MasterObj(inp, cs, y) ==
    Sum([jt \in JT(inp) |-> inp.f[jt] * y[jt]], JT(inp)) + ZHatOf(inp, cs, y)

\* the values a y may take: binary, or the lattice of the relaxation
BinaryY(inp) == [JT(inp) -> {0, YS}]
Lattice == {(k * YS) \div YSteps : k \in 0 .. YSteps}
RelaxedY(inp) == [JT(inp) -> Lattice]
Domain(inp, ptype) == IF ptype = "MILP" THEN BinaryY(inp) ELSE RelaxedY(inp)

\* cpx.solve() on the master: the optimal solutions [obj, y, zHat]; empty
\* when the master is infeasible
MasterSolve(inp, cs, ptype) ==
    UNION {UNION {{[obj |-> best, y |-> y, zHat |-> ZHatOf(inp, cs, y)] :
                     y \in {y \in feas : MasterObj(inp, cs, y) = best}} :
                    best \in {SetMin({MasterObj(inp, cs, y) : y \in feas})}} :
             feas \in {{y \in Domain(inp, ptype) : MasterFeasibleY(inp, cs, y)}} \ {{}}}

(***************************************************************************)
(* Index bookkeeping of the triangular arrays z_ilo[j][t], lLogic[j][t],   *)
(* epsilon_sol[j][t]: entry r of row t is stored at offset r-t.            *)
(***************************************************************************)
\* the absolute period used as the position in the triangular array
ZOffsetAbsolute(t, r) == r
\* z_ilo[j][t][r-t], lLogic[j][t][r-t]
ZOffset(t, r) == r - t
\* <<j, t, offset>> touched by WorkerLPPrimal.__init__
InitRefs(inp) ==
    \* variables and logic constraints: for j, for t, for r in range(t, nP)
    {<<jtr[1], jtr[2], ZOffset(jtr[2], jtr[3])>> :
        jtr \in {x \in Items(inp) \X Periods(inp) \X Periods(inp) : x[3] \in x[2] .. (inp.nP - 1)}}
    \* demand constraints: for j, for r, for t in range(r+1)
    \cup {<<jrt[1], jrt[3], ZOffset(jrt[3], jrt[2])>> :
        jrt \in {x \in Items(inp) \X Periods(inp) \X Periods(inp) : x[3] \in 0 .. x[2]}}
\* <<j, t, offset>> touched by solveSubPrimal (rhs update, duals, cut)
SolveRefs(inp) ==
    {<<jtr[1], jtr[2], ZOffset(jtr[2], jtr[3])>> :
        jtr \in {x \in Items(inp) \X Periods(inp) \X Periods(inp) : x[3] \in x[2] .. (inp.nP - 1)}}

(***************************************************************************)
(* The instances the drivers are run on.                                   *)
(***************************************************************************)
InstBase  == OneItem(2, <<5, 5>>, <<10, 10>>, 0, 10, 1)
InstTight == OneItem(2, <<8, 2>>, <<5, 10>>, 0, 10, 1)
\* setups consume capacity (m = 2) and the capacity of period 1 binds
InstHold  == OneItem(2, <<1, 2>>, <<6, 2>>, 2, 1, 1)
\* period 1 cannot cover its own demand: one unit is carried from period 0
InstCarry == OneItem(2, <<2, 3>>, <<4, 2>>, 0, 4, 1)
\* with a setup in period 0 only, the capacity left there (4 - 1) is below
\* the total demand: infeasible through a capacity row with m > 0
InstSetup == OneItem(2, <<1, 3>>, <<4, 3>>, 1, 4, 1)
\* the demand of period 1 exceeds the capacity of either period: both
\* periods must be set up, a setup in one period only is infeasible
InstSplit == OneItem(2, <<0, 3>>, <<2, 2>>, 0, 2, 1)
\* setup time 2 and all the demand in period 1: producing in period 0 alone
\* (cost 3 + 3) beats setting up both periods (cost 6 + 2)
InstGap == OneItem(2, <<0, 3>>, <<5, 3>>, 2, 3, 1)
Instances == {InstBase, InstTight, InstHold, InstCarry, InstSetup, InstSplit,
              InstGap}

(***************************************************************************)
(* State.                                                                  *)
(***************************************************************************)
VARIABLES
    inp,        \* the instance
    algo,       \* 1: bendersDual, 3: bendersCallbackScheme (main)
    pc,         \* position of the driver
    ptype,      \* problem type of the master: "LP" or "MILP"
    cuts,       \* the rows of the master (cpx.linear_constraints)
    nCons,      \* cpx.linear_constraints.get_num()
    zRefs,      \* offsets touched in the triangular arrays
    faults,     \* worker solves that ended neither optimal nor infeasible
    wRhs,       \* right-hand sides of the rows of the worker LP
    wCut,       \* worker.cutLhs, worker.cutRhs: <<>> or <<cut>>
    \* newIOCycle
    lambda5,    \* _lambda in fifths: 1 is 0.2, 5 is 1.0
    delta,      \* _delta in units of 1/YS
    noImprov, ioBestLB, nrIter, zLP, yTilde, yy,
    streak,     \* history: passes since zLP last exceeded bestLB
    stalls,     \* history: passes whose zLP did not exceed bestLB
    \* bendersDual
    nIters, nrCuts, ubBest, bestLB, ySol, zHat, zSub, cutType,
    \* bendersCallbackScheme and BendersLazyConsCallback
    lazy,       \* lazy constraints of the search's working copy
    incumbent,  \* the incumbent of the search: <<>> or <<[obj, y, zHat]>>
    cbIter, cbBestLB, cbBestUB,
    running,    \* the callback invocations that have not returned yet
    split,      \* lambda_sol, omega_sol, epsilon_sol of a split: <<>> or <<s>>
    wDual       \* cutType, zSub, cutLhs, cutRhs of WorkerLPDual: <<>> or <<r>>

ioVars == <<lambda5, delta, noImprov, ioBestLB, nrIter, zLP, yTilde, yy, streak,
           stalls>>
aVars  == <<nIters, nrCuts, ubBest, bestLB>>
bVars  == <<lazy, incumbent, cbIter, cbBestLB, cbBestUB, running>>
solVars == <<ySol, zHat, zSub, cutType>>
wVars == <<wRhs, wCut>>
vars == <<inp, algo, pc, ptype, cuts, nCons, zRefs, faults, wVars,
          ioVars, aVars, bVars, solVars, split, wDual>>

\* bound on the worker solves that end with another status
MaxFaults == 1
\* cpx.parameters.threads.set(1)
Threads == 1

\* createMaster and WorkerLPPrimal.__init__ have run
Init ==
    /\ inp \in Instances
    /\ algo \in {1, 3}
    /\ pc = "start"
    /\ ptype = "MILP"
    /\ cuts = {}
    /\ nCons = 0
    /\ zRefs = InitRefs(inp)
    /\ faults = 0
    /\ wRhs = InitRhs(inp)
    /\ wCut = <<>>
    /\ lambda5 = 1 /\ delta = 2 /\ noImprov = 0 /\ ioBestLB = 0 /\ nrIter = 0
    /\ streak = 0 /\ stalls = 0
    /\ zLP = 0 - INFTY
    /\ yTilde = [jt \in JT(inp) |-> YS]
    /\ yy = [jt \in JT(inp) |-> YS]
    /\ nIters = 0 /\ nrCuts = 0 /\ ubBest = INFTY /\ bestLB = 0 - INFTY
    /\ ySol = [jt \in JT(inp) |-> 0] /\ zHat = 0 /\ zSub = -1 /\ cutType = 0
    /\ lazy = {} /\ incumbent = <<>> /\ cbIter = 0
    /\ cbBestLB = 0 - INFTY /\ cbBestUB = INFTY
    /\ running = {}
    /\ split = <<>>
    /\ wDual = <<>>

\* the chain with five increments of the counter per stage
EscalateAfterFive(z) ==
    LET same == [bestLB |-> ioBestLB, noImprov |-> noImprov, delta |-> delta,
                 lambda5 |-> lambda5, stopping |-> FALSE]
    IN  IF z > ioBestLB      THEN [same EXCEPT !.bestLB = z]
        ELSE IF noImprov < 5  THEN [same EXCEPT !.noImprov = noImprov + 1]
        ELSE IF delta = 0     THEN [same EXCEPT !.stopping = TRUE]
        ELSE IF lambda5 = 5   THEN [same EXCEPT !.delta = 0, !.noImprov = 0]
        ELSE [same EXCEPT !.lambda5 = 5, !.noImprov = 0]
\* Variant of the escalation chain that drops delta before raising lambda.
EscalateDeltaFirst(z) ==
    LET same == [bestLB |-> ioBestLB, noImprov |-> noImprov, delta |-> delta,
                 lambda5 |-> lambda5, stopping |-> FALSE]
    IN  IF z > ioBestLB      THEN [same EXCEPT !.bestLB = z]
        ELSE IF noImprov <= 5 THEN [same EXCEPT !.noImprov = noImprov + 1]
        ELSE IF delta # 0     THEN [same EXCEPT !.delta = 0, !.noImprov = 0]
        ELSE IF lambda5 = 5   THEN [same EXCEPT !.stopping = TRUE]
        ELSE [same EXCEPT !.lambda5 = 5, !.noImprov = 0]

(***************************************************************************)
(* newIOCycle                                                              *)
(***************************************************************************)
\* the if/elif chain on zLP (lines 1379-1390): the locals after it
Escalate(z) ==
    LET same == [bestLB |-> ioBestLB, noImprov |-> noImprov, delta |-> delta,
                 lambda5 |-> lambda5, stopping |-> FALSE]
    IN  IF z > ioBestLB      THEN [same EXCEPT !.bestLB = z]
        ELSE IF noImprov <= 5 THEN [same EXCEPT !.noImprov = noImprov + 1]
        ELSE IF delta = 0     THEN [same EXCEPT !.stopping = TRUE]
        ELSE IF lambda5 = 5   THEN [same EXCEPT !.delta = 0, !.noImprov = 0]
        ELSE [same EXCEPT !.lambda5 = 5, !.noImprov = 0]

\* a centre update that adds yStar without halving
NewYTildeUnweighted(yStar) == [jt \in JT(inp) |-> yTilde[jt] + yStar[jt]]
\* yTilde = _alpha*yTilde + (1-_alpha)*yStar with _alpha = 0.5
NewYTilde(yStar) == [jt \in JT(inp) |-> (yTilde[jt] + yStar[jt]) \div 2]

\* Variant that separates at the stability centre whatever lambda is.
SeparationPointCentre(yStar, yT, l5, dl) ==
    [jt \in JT(inp) |-> Min(YS, yT[jt] + dl)]

\* yy = min(1, _lambda*yStar + (1-_lambda)*yTilde + _delta)
SeparationPoint(yStar, yT, l5, dl) ==
    [jt \in JT(inp) |-> Min(YS, (l5 * yStar[jt] + (5 - l5) * yT[jt]) \div 5 + dl)]

\* an add that leaves the rows as they are
AddCutDropped(cs, c) == cs
\* a master that keeps only its newest row
AddCutReplacing(cs, c) == {c}
\* cpx.linear_constraints.add on the master
AddCut(cs, c) == cs \cup {c}

NewIOCycleStart ==
    /\ pc = "start"
    /\ pc' = "io"
    /\ ptype' = "LP"
    /\ UNCHANGED <<inp, split, wDual, algo, cuts, nCons, zRefs, faults, wVars, ioVars, aVars, bVars, solVars>>

\* worker.solveSubPrimal(inp, y, ...): its classified results, or the one
\* result of a solve that ended with another status
Worker(y, other) ==
    IF other THEN {SolveSubPrimalOther(inp)} ELSE SolveSubPrimal(inp, wRhs, y)

\* one pass of the while loop for the master optimum ms; other: the
\* worker solve ends with a status that is neither optimal nor infeasible
IOBody(ms, other) ==
    LET e   == Escalate(ms.obj)
        yT  == NewYTilde(ms.y)
        sep == SeparationPoint(ms.y, yT, e.lambda5, e.delta)
    IN  \E res \in Worker(sep, other) :
          /\ zLP' = ms.obj
          /\ nrIter' = nrIter + 1
          /\ ioBestLB' = e.bestLB
          /\ noImprov' = e.noImprov
          /\ streak' = IF ms.obj > ioBestLB THEN 0 ELSE streak + 1
          /\ stalls' = IF ms.obj > ioBestLB THEN stalls ELSE stalls + 1
          /\ delta' = e.delta
          /\ lambda5' = e.lambda5
          /\ zHat' = ms.zHat
          /\ ySol' = ms.y
          /\ yTilde' = yT
          /\ yy' = sep
          /\ cutType' = res.cutType
          /\ zSub' = res.zSub
          /\ zRefs' = zRefs \cup SolveRefs(inp)
          /\ wRhs' = SetRhs(wRhs, inp, sep)
          /\ wCut' = <<res.cut>>
          /\ IF res.cutType > 0
             THEN /\ cuts' = AddCut(cuts, res.cut)
                  /\ nCons' = nCons + 1
                  /\ pc' = IF e.stopping THEN "ioDone" ELSE "io"
             ELSE \* print("something wrong with cutType !!!"); input("aka")
                  /\ UNCHANGED <<cuts, nCons>>
                  /\ pc' = IF e.stopping THEN "ioPauseLast" ELSE "ioPause"
          /\ UNCHANGED <<inp, split, wDual, algo, ptype, aVars, bVars>>

IOIteration ==
    /\ pc = "io"
    /\ \E ms \in MasterSolve(inp, cuts, ptype) : IOBody(ms, FALSE)
    /\ UNCHANGED faults

\* get_objective_value() on a master without solution raises CplexSolverError,
\* which nothing catches
MasterNoSolution ==
    /\ pc \in {"io", "modeA"}
    /\ \A y \in Domain(inp, ptype) : ~MasterFeasibleY(inp, cuts, y)
    /\ pc' = "crashed"
    /\ UNCHANGED <<inp, split, wDual, algo, ptype, cuts, nCons, zRefs, faults, wVars, ioVars, aVars, bVars, solVars>>

(***************************************************************************)
(* bendersDual                                                             *)
(***************************************************************************)
\* the drivers go on without changing the problem type
SetBinaryKeepingLP ==
    /\ pc = "ioDone"
    /\ pc' = IF algo = 1 THEN "modeA" ELSE "bb"
    /\ UNCHANGED <<inp, split, wDual, algo, ptype, cuts, nCons, zRefs, faults, wVars, ioVars, aVars, bVars, solVars>>
\* set_problem_type(MILP), set_types(binary), input("aka")
SetBinary ==
    /\ pc = "ioDone"
    /\ ptype' = "MILP"
    /\ pc' = IF algo = 1 THEN "modeA" ELSE "bb"
    /\ UNCHANGED <<inp, split, wDual, algo, cuts, nCons, zRefs, faults, wVars, ioVars, aVars, bVars, solVars>>

\* the upper bound updated after every cut, whatever its type
NewUbBestOnAnyCut(ms, res) == Min(ubBest, (ms.obj - ms.zHat) + res.zSub)
\* the upper bound without the fixed cost of the setups
NewUbBestNoFixedCost(ms, res) ==
    IF res.cutType = 2 THEN Min(ubBest, res.zSub) ELSE ubBest
\* ub = fixedCost + zSub, kept when smaller (lines 1621-1626)
NewUbBest(ms, res) ==
    IF res.cutType = 2
    THEN Min(ubBest, (ms.obj - ms.zHat) + res.zSub)
    ELSE ubBest

\* the stop test with the bounds swapped
StopTestSwapped(ub, lb) == lb - ub < EPSI
\* if ubBest - bestLB < _EPSI: stopping = True
StopTest(ub, lb) == ub - lb < EPSI

BendersBody(ms, other) ==
    \E res \in Worker(ms.y, other) :
      /\ nIters' = nIters + 1
      /\ bestLB' = ms.obj
      /\ zHat' = ms.zHat
      /\ ySol' = ms.y
      /\ cutType' = res.cutType
      /\ zSub' = res.zSub
      /\ zRefs' = zRefs \cup SolveRefs(inp)
      /\ wRhs' = SetRhs(wRhs, inp, ms.y)
      /\ wCut' = <<res.cut>>
      /\ ubBest' = NewUbBest(ms, res)
      /\ nrCuts' = nrCuts + 1
      /\ cuts' = AddCut(cuts, res.cut)
      /\ nCons' = nCons + 1
      /\ pc' = IF StopTest(NewUbBest(ms, res), ms.obj) THEN "done" ELSE "modeA"
      /\ UNCHANGED <<inp, split, wDual, algo, ptype, ioVars, bVars>>

BendersIteration ==
    /\ pc = "modeA"
    /\ \E ms \in MasterSolve(inp, cuts, ptype) : BendersBody(ms, FALSE)
    /\ UNCHANGED faults

(***************************************************************************)
(* bendersCallbackScheme: one branch and bound run of the solver on a      *)
(* working copy of the master; BendersLazyConsCallback is called on every  *)
(* integer candidate and the candidate becomes the incumbent when it       *)
(* satisfies the lazy constraint the callback adds.                        *)
(***************************************************************************)
IncumbentObj == IF incumbent = <<>> THEN INFTY ELSE incumbent[1].obj
\* the integer solutions the search can still propose
Candidates ==
    LET cs == cuts \cup lazy
    IN  {[obj |-> MasterObj(inp, cs, y), y |-> y, zHat |-> ZHatOf(inp, cs, y)] :
           y \in {y \in BinaryY(inp) :
                    /\ MasterFeasibleY(inp, cs, y)
                    /\ MasterObj(inp, cs, y) < IncumbentObj}}
\* get_best_objective_value(): the least objective of the open nodes
BestBound == SetMin({c.obj : c \in Candidates})
\* a search that accepts every candidate
SatisfiesAnyCut(c, cand) == TRUE
Satisfies(c, cand) == CutLhsY(inp, c, cand.y) + c.zc * cand.zHat <= c.rhs

\* cpx.parameters.threads.set(1): the search invokes a callback only while
\* fewer than Threads invocations are running
ThreadFreeOfTwo(n) == n < 2
ThreadFree(n) == n < Threads

\* The search reaches an integer solution and invokes the callback, which
\* reads the solution and the bounds and enters solveSubPrimal: the set_rhs
\* calls (lines 121-147, 940-952)
CallbackEnter ==
    /\ pc = "bb"
    /\ ThreadFree(Cardinality(running))
    /\ \E cand \in Candidates :
         /\ running' = running \cup
                          {[y |-> cand.y, zHat |-> cand.zHat, obj |-> cand.obj,
                            bestLB |-> Max(cbBestLB, BestBound),
                            bestUB |-> Min(cbBestUB, cand.obj)]}
         /\ wRhs' = SetRhs(wRhs, inp, cand.y)
    /\ UNCHANGED <<inp, split, wDual, algo, pc, ptype, cuts, nCons, zRefs, faults, wCut,
                   ioVars, aVars, solVars,
                   lazy, incumbent, cbIter, cbBestLB, cbBestUB>>

\* an invocation whose cut is added to the master object as well
CallbackBodyIntoMaster(call, other) ==
    \E res \in (IF other THEN {SolveSubPrimalOther(inp)}
                ELSE WorkerSolve(inp, wRhs, call.y)) :
      /\ cbBestLB' = call.bestLB
      /\ cbBestUB' = call.bestUB
      /\ zHat' = call.zHat
      /\ ySol' = call.y
      /\ cutType' = res.cutType
      /\ zSub' = res.zSub
      /\ zRefs' = zRefs \cup SolveRefs(inp)
      /\ wCut' = <<res.cut>>
      /\ lazy' = AddCut(lazy, res.cut)
      /\ cuts' = AddCut(cuts, res.cut)
      /\ nCons' = nCons + 1
      /\ cbIter' = cbIter + 1
      /\ incumbent' = IF Satisfies(res.cut, call)
                       THEN <<[obj |-> call.obj, y |-> call.y, zHat |-> call.zHat]>>
                       ELSE incumbent
      /\ running' = running \ {call}
      /\ UNCHANGED <<inp, split, wDual, algo, pc, ptype, wRhs, ioVars, aVars>>
\* the rest of the invocation: the worker's solve, the cut, self.add and
\* the return to the search (lines 961-1055, 152-163)
CallbackBody(call, other) ==
    \E res \in (IF other THEN {SolveSubPrimalOther(inp)}
                ELSE WorkerSolve(inp, wRhs, call.y)) :
      /\ cbBestLB' = call.bestLB
      /\ cbBestUB' = call.bestUB
      /\ zHat' = call.zHat
      /\ ySol' = call.y
      /\ cutType' = res.cutType
      /\ zSub' = res.zSub
      /\ zRefs' = zRefs \cup SolveRefs(inp)
      /\ wCut' = <<res.cut>>
      /\ lazy' = AddCut(lazy, res.cut)
      /\ cbIter' = cbIter + 1
      /\ incumbent' = IF Satisfies(res.cut, call)
                       THEN <<[obj |-> call.obj, y |-> call.y, zHat |-> call.zHat]>>
                       ELSE incumbent
      /\ running' = running \ {call}
      /\ UNCHANGED <<inp, split, wDual, algo, pc, ptype, cuts, nCons, wRhs, ioVars, aVars>>

Callback ==
    /\ pc = "bb"
    /\ \E call \in running : CallbackBody(call, FALSE)
    /\ UNCHANGED faults

\* cpx.solve() returns; solution.get_objective_value() raises without incumbent
SearchEnd ==
    /\ pc = "bb"
    /\ running = {}
    /\ Candidates = {}
    /\ pc' = IF incumbent = <<>> THEN "crashed" ELSE "done"
    /\ UNCHANGED <<inp, split, wDual, algo, ptype, cuts, nCons, zRefs, faults, wVars, ioVars, aVars, bVars, solVars>>

Next ==
    \/ NewIOCycleStart
    \/ IOIteration
    \/ MasterNoSolution
    \/ SetBinary
    \/ BendersIteration
    \/ CallbackEnter
    \/ Callback
    \/ SearchEnd

Spec == Init /\ [][Next]_vars

\* the process keeps running: a driver that can take a step takes one
SpecLive == Init /\ [][Next]_vars /\ WF_vars(Next)

(***************************************************************************)
(* Runs in which a worker solve ends with a status that is neither         *)
(* optimal nor infeasible: solveSubPrimal returns cutType 0, zSub -1 and   *)
(* an empty cut.                                                           *)
(***************************************************************************)
IOIterationOther ==
    /\ pc = "io"
    /\ faults < MaxFaults
    /\ \E ms \in MasterSolve(inp, cuts, ptype) : IOBody(ms, TRUE)
    /\ faults' = faults + 1

\* input("aka") returns and the while loop goes on
IOResume ==
    /\ pc \in {"ioPause", "ioPauseLast"}
    /\ pc' = IF pc = "ioPause" THEN "io" ELSE "ioDone"
    /\ UNCHANGED <<inp, split, wDual, algo, ptype, cuts, nCons, zRefs, faults, wVars, ioVars, aVars, bVars, solVars>>

BendersIterationOther ==
    /\ pc = "modeA"
    /\ faults < MaxFaults
    /\ \E ms \in MasterSolve(inp, cuts, ptype) : BendersBody(ms, TRUE)
    /\ faults' = faults + 1

CallbackOther ==
    /\ pc = "bb"
    /\ faults < MaxFaults
    /\ \E call \in running : CallbackBody(call, TRUE)
    /\ faults' = faults + 1

NextFault ==
    \/ NewIOCycleStart
    \/ IOIteration
    \/ IOIterationOther
    \/ IOResume
    \/ MasterNoSolution
    \/ SetBinary
    \/ BendersIteration
    \/ BendersIterationOther
    \/ CallbackEnter
    \/ Callback
    \/ CallbackOther
    \/ SearchEnd

SpecFault == Init /\ [][NextFault]_vars

(***************************************************************************)
(* Instance construction and the layout of the worker's rows, checked on   *)
(* a family of small instances: SpecData reads an instance, runs           *)
(* Instance.__init__ on it and splits a Farkas vector of its worker LP.    *)
(***************************************************************************)
MaxItems   == 2
MaxPeriods == 2
MaxDemand  == 1
MaxSetup   == 2
MaxCap     == 2

\* aux of the cumulative-demand loop: aux.append(aux[progr] + d[j][t]) for
\* t = nP-2 down to 0
RECURSIVE CumAux(_, _, _, _, _)
CumAux(i, j, t, aux, progr) ==
    IF t < 0 THEN aux
    ELSE CumAux(i, j, t - 1, Append(aux, aux[progr + 1] + i.d[<<j, t>>]), progr + 1)
Reversed(s) == [k \in 1 .. Len(s) |-> s[Len(s) + 1 - k]]
\* the list appended to dcum for item j: entry t + 1 is dcum[j][t]
CumDemand(i, j) ==
    Reversed(CumAux(i, j, i.nP - 2, <<i.d[<<j, i.nP - 1>>]>>, 0))
\* for j in range(nI): dcum.append(...)
RECURSIVE DcumAppend(_, _, _)
DcumAppend(i, j, dcum) ==
    IF j = i.nI THEN dcum ELSE DcumAppend(i, j + 1, Append(dcum, CumDemand(i, j)))

\* readSmallInstances: one capacity for all periods, a = 1, m per item,
\* c = 0, d per item and period, and the reader's own dcum
ReadSmallInstances(nI, nP, capv, mv, dv) ==
    LET raw == [nI  |-> nI, nP |-> nP,
                d   |-> [jt \in (0 .. nI - 1) \X (0 .. nP - 1) |-> dv[jt[2]] * (jt[1] + 1)],
                cap |-> [t \in 0 .. nP - 1 |-> capv],
                a   |-> [jt \in (0 .. nI - 1) \X (0 .. nP - 1) |-> 1],
                m   |-> [jt \in (0 .. nI - 1) \X (0 .. nP - 1) |-> mv[jt[1]]],
                f   |-> [jt \in (0 .. nI - 1) \X (0 .. nP - 1) |-> 1],
                h   |-> [jt \in (0 .. nI - 1) \X (0 .. nP - 1) |-> 1]]
    IN  raw @@ [dcum |-> DcumAppend(raw, 0, <<>>), max_prod |-> <<>>]
DataInstances ==
    UNION {UNION {{ReadSmallInstances(nI, nP, capv, mv, dv) :
                     capv \in 1 .. MaxCap,
                     mv \in [0 .. nI - 1 -> 0 .. MaxSetup],
                     dv \in [0 .. nP - 1 -> 0 .. MaxDemand]} :
                  nP \in 1 .. MaxPeriods} : nI \in 1 .. MaxItems}

\* max_prod of item j: entry t + 1 is min((cap[t] - m[j][t]) / a[j][t], dcum[j][t])
MaxProd(i, dcum, j) ==
    [k \in 1 .. i.nP |->
       Min((i.cap[k - 1] - i.m[<<j, k - 1>>]) \div i.a[<<j, k - 1>>], dcum[j + 1][k])]
\* Instance.__init__ after the reader: dcum is appended to once more,
\* max_prod gets one list per item
InstanceInit(i) ==
    LET dcum == DcumAppend(i, 0, i.dcum)
    IN  [i EXCEPT !.dcum = dcum,
                  !.max_prod = [k \in 1 .. i.nI |-> MaxProd(i, dcum, k - 1)]]

\* the names of the worker's rows in the order WorkerLPPrimal.__init__
\* adds them
RECURSIVE CapacityRows(_, _)
CapacityRows(i, t) ==
    IF t = i.nP THEN <<>>
    ELSE <<"capacity." \o ToString(t)>> \o CapacityRows(i, t + 1)
RECURSIVE DemandRows(_, _, _)
DemandRows(i, j, r) ==
    IF j = i.nI THEN <<>>
    ELSE IF r = i.nP THEN DemandRows(i, j + 1, 0)
    ELSE <<"demand." \o ToString(j) \o "." \o ToString(r)>> \o DemandRows(i, j, r + 1)
RECURSIVE LogicRows(_, _, _, _)
LogicRows(i, j, t, r) ==
    IF j = i.nI THEN <<>>
    ELSE IF t = i.nP THEN LogicRows(i, j + 1, 0, 0)
    ELSE IF r = i.nP THEN LogicRows(i, j, t + 1, t + 1)
    ELSE <<"logic." \o ToString(j) \o "." \o ToString(t) \o "." \o ToString(r)>>
         \o LogicRows(i, j, t, r + 1)
WorkerRows(i) == CapacityRows(i, 0) \o DemandRows(i, 0, 0) \o LogicRows(i, 0, 0, 0)

\* The split of the vector farkas returned by dual_farkas (one entry per
\* row, farkas[k] is entry k + 1 of the sequence)
OmegaIndexByPeriod(i, j, r) == i.nP + r * i.nI + j
OmegaIndex(i, j, r) == i.nP + j * i.nP + r
LambdaSol(i, farkas) == [t \in Periods(i) |-> farkas[t + 1]]
OmegaSol(i, farkas) == [jr \in JT(i) |-> farkas[OmegaIndex(i, jr[1], jr[2]) + 1]]
LogicCount(i) == (i.nI * (i.nP * (i.nP + 1))) \div 2
FLogic(i, farkas) ==
    LET progr == i.nP + i.nP * i.nI
    IN  [k \in 1 .. LogicCount(i) |-> farkas[progr + k]]
\* the loops over j, t, r >= t that take fLogic[pp] with pp counting up
RECURSIVE EpsilonLoop(_, _, _, _, _, _)
EpsilonLoop(i, fLogic, j, t, r, pp) ==
    IF j = i.nI THEN <<>>
    ELSE IF t = i.nP THEN EpsilonLoop(i, fLogic, j + 1, 0, 0, pp)
    ELSE IF r = i.nP THEN EpsilonLoop(i, fLogic, j, t + 1, t + 1, pp)
    ELSE (<<j, t, r>> :> fLogic[pp + 1]) @@ EpsilonLoop(i, fLogic, j, t, r + 1, pp + 1)
EpsilonSol(i, farkas) == EpsilonLoop(i, FLogic(i, farkas), 0, 0, 0, 0)

\* the instance file has been read
InitData ==
    /\ inp \in DataInstances
    /\ algo = 0
    /\ pc = "read"
    /\ ptype = "MILP"
    /\ cuts = {} /\ nCons = 0 /\ zRefs = {} /\ faults = 0
    /\ wRhs = <<>> /\ wCut = <<>>
    /\ lambda5 = 1 /\ delta = 2 /\ noImprov = 0 /\ ioBestLB = 0 /\ nrIter = 0
    /\ streak = 0 /\ stalls = 0
    /\ zLP = 0 - INFTY /\ yTilde = <<>> /\ yy = <<>>
    /\ nIters = 0 /\ nrCuts = 0 /\ ubBest = INFTY /\ bestLB = 0 - INFTY
    /\ ySol = <<>> /\ zHat = 0 /\ zSub = -1 /\ cutType = 0
    /\ lazy = {} /\ incumbent = <<>> /\ cbIter = 0
    /\ cbBestLB = 0 - INFTY /\ cbBestUB = INFTY
    /\ running = {}
    /\ split = <<>>
    /\ wDual = <<>>

ConstructInstance ==
    /\ pc = "read"
    /\ inp' = InstanceInit(inp)
    /\ pc' = "built"
    /\ UNCHANGED <<algo, ptype, cuts, nCons, zRefs, faults, wVars, ioVars, aVars,
                   bVars, solVars, split, wDual>>

\* the infeasible branch splits the Farkas vector; entry k of the vector is
\* written as the name of row k, the row whose multiplier it is
FarkasSplit ==
    /\ pc = "built"
    /\ split' = <<[lambda  |-> LambdaSol(inp, WorkerRows(inp)),
                   omega   |-> OmegaSol(inp, WorkerRows(inp)),
                   epsilon |-> EpsilonSol(inp, WorkerRows(inp))]>>
    /\ pc' = "split"
    /\ UNCHANGED <<inp, algo, ptype, cuts, nCons, zRefs, faults, wVars, ioVars, aVars,
                   bVars, solVars, wDual>>

NextData == ConstructInstance \/ FarkasSplit
SpecData == InitData /\ [][NextData]_vars

(***************************************************************************)
(* The two workers side by side: solveSubPrimal and solveSubDual are       *)
(* called with the same ySol on workers built for the same instance.       *)
(***************************************************************************)
InitWorkers ==
    /\ inp \in Instances
    /\ algo = 0
    /\ pc = "workers"
    /\ ptype = "MILP"
    /\ cuts = {}
    /\ nCons = 0
    /\ zRefs = InitRefs(inp)
    /\ faults = 0
    /\ wRhs = InitRhs(inp)
    /\ wCut = <<>>
    /\ lambda5 = 1 /\ delta = 2 /\ noImprov = 0 /\ ioBestLB = 0 /\ nrIter = 0
    /\ streak = 0 /\ stalls = 0
    /\ zLP = 0 - INFTY
    /\ yTilde = [jt \in JT(inp) |-> YS]
    /\ yy = [jt \in JT(inp) |-> YS]
    /\ nIters = 0 /\ nrCuts = 0 /\ ubBest = INFTY /\ bestLB = 0 - INFTY
    /\ ySol \in RelaxedY(inp) /\ zHat = 0 /\ zSub = -1 /\ cutType = 0
    /\ lazy = {} /\ incumbent = <<>> /\ cbIter = 0
    /\ cbBestLB = 0 - INFTY /\ cbBestUB = INFTY
    /\ running = {}
    /\ split = <<>>
    /\ wDual = <<>>

\* cutType, zSub = worker.solveSubPrimal(inp, ySol, ...)
SolvePrimalAt ==
    /\ pc = "workers"
    /\ \E res \in SolveSubPrimal(inp, wRhs, ySol) :
          /\ cutType' = res.cutType
          /\ zSub' = res.zSub
          /\ wCut' = <<res.cut>>
    /\ wRhs' = SetRhs(wRhs, inp, ySol)
    /\ pc' = "primal"
    /\ UNCHANGED <<inp, split, wDual, algo, ptype, cuts, nCons, zRefs, faults, ioVars,
                   aVars, bVars, ySol, zHat>>

\* cutType, zSub = workerDual.solveSubDual(inp, ySol, ...)
SolveDualAt ==
    /\ pc = "primal"
    /\ \E res \in SolveSubDual(inp, ySol) : wDual' = <<res>>
    /\ pc' = "dual"
    /\ UNCHANGED <<inp, split, algo, ptype, cuts, nCons, zRefs, faults, wVars, ioVars,
                   aVars, bVars, solVars>>

NextWorkers == SolvePrimalAt \/ SolveDualAt
SpecWorkers == InitWorkers /\ [][NextWorkers]_vars

(***************************************************************************)
(* Reference values of an instance.                                        *)
(***************************************************************************)
\* the binary setups with a feasible production plan
FeasibleSetups(i) == {y \in BinaryY(i) : ~SubInfeasible(i, y)}
\* setup cost of y
SetupCost(i, y) == Sum([jt \in JT(i) |-> i.f[jt] * y[jt]], JT(i))
\* the optimal cost of the instance (units of 1/YS)
OptimalCost(i) == SetMin({SetupCost(i, y) + SubOpt(i, y) : y \in FeasibleSetups(i)})

\* C1: every optimality cut held by the master or by the search is
\* satisfied by (y, subproblemOptimum(y)) for every binary y whose
\* subproblem is feasible
C1_CutsNeverExcludeTruePoints ==
    \A c \in {c \in cuts \cup lazy : c.type = 2} :
        \A y \in FeasibleSetups(inp) :
            CutLhsY(inp, c, y) - SubOpt(inp, y) <= c.rhs

MIPFeasible(i) == FeasibleSetups(i) # {}
\* the plan cost of setups y
PlanCost(i, y) == SetupCost(i, y) + SubOpt(i, y)
\* the stop test of bendersDual; for the search, the bounds the callback
\* tracks have met and no open node is below the incumbent
GapClosed ==
    IF algo = 1 THEN ubBest - bestLB < EPSI
    ELSE /\ incumbent # <<>>
         /\ Candidates = {}
         /\ cbBestUB - cbBestLB < EPSI

C3_ModeAOptimal ==
    (algo = 1 /\ pc = "done") =>
        /\ ubBest = OptimalCost(inp)
        /\ ySol \in FeasibleSetups(inp)
        /\ PlanCost(inp, ySol) = OptimalCost(inp)

\* C4: the master's optimal objective never decreases from one outer
\* iteration to the next: zLP in newIOCycle, bestLB in bendersDual
C4_MasterObjectiveMonotone ==
    [][/\ (pc = "io" /\ nrIter >= 1 /\ nrIter' = nrIter + 1) => zLP' >= zLP
       /\ (pc = "modeA" /\ nIters >= 1 /\ nIters' = nIters + 1) => bestLB' >= bestLB]_vars
C4_SecondModeASolve == nIters >= 2 /\ nrIter >= 2 /\ bestLB > 0 /\ zLP > 0

\* setups of period 0 only, of both periods
OnlyFirst == (<<0, 0>> :> YS @@ <<0, 1>> :> 0)
BothPeriods == (<<0, 0>> :> YS @@ <<0, 1>> :> YS)
\* the plan and the cost the run ended with
FinalSetups == IF algo = 1 THEN ySol ELSE incumbent[1].y
FinalCost == IF algo = 1 THEN ubBest ELSE incumbent[1].obj

\* C5 as amended: on d=[5,5], cap=[10,10], m=0, f=10, h=1 the optimal plan
\* sets up period 0 only and holds 5 units for one period, at cost 15; the
\* run ends with this plan, Mode A after one iteration of its loop and
\* Mode B after at most two callbacks
C5_BaseConverges ==
    (inp = InstBase) ~>
        /\ pc = "done"
        /\ OptimalCost(InstBase) = 15 * YS
        /\ PlanCost(InstBase, OnlyFirst) = 15 * YS
        /\ FinalSetups = OnlyFirst
        /\ FinalCost = 15 * YS
        /\ (algo = 1 => nIters = 1)
        /\ (algo = 3 => cbIter <= 2)
C5_BaseDone == inp = InstBase /\ pc = "done" /\ algo = 1 /\ zSub = 5 * YS
\* C5 as stated: the run on that instance ends with y=[1,1] at cost 20
C5_BothPeriodsAt20 ==
    (inp = InstBase /\ pc = "done") =>
        FinalSetups = BothPeriods /\ FinalCost = 20 * YS

C7_Triangular ==
    \A ref \in zRefs :
        /\ ref[1] \in Items(inp)
        /\ ref[2] \in Periods(inp)
        /\ ref[3] >= 0
        /\ ref[2] + ref[3] < inp.nP
C7_WorkerSolved == nrIter >= 1 /\ cutType = 2 /\ <<0, 1, 0>> \in zRefs

\* C8: after a worker solve with another status no cut is added and no
\* further master or worker solve is performed
C8_OtherStatusAborts ==
    [][/\ (faults' > faults) => (cuts' = cuts /\ lazy' = lazy)
       /\ (faults > 0) => (/\ cuts' = cuts /\ lazy' = lazy
                           /\ nrIter' = nrIter /\ nIters' = nIters
                           /\ cbIter' = cbIter)]_vars

\* the iteration budget of C9
IterBudget == 1
\* C9: once Mode A has used its iteration budget with the gap still open
\* it performs no further iteration and does not crash
C9_StopsAtBudget ==
    [][(algo = 1 /\ nIters >= IterBudget /\ ubBest - bestLB >= EPSI)
          => (nIters' = nIters /\ pc' # "crashed")]_vars

\* C10: the master's rows only grow: every row added earlier is still
\* there unchanged and the number of rows never decreases
C10_CutsOnlyGrow == [][cuts \subseteq cuts' /\ nCons' >= nCons]_vars
C10_SeveralCuts == Cardinality(cuts) >= 3 /\ nIters >= 1 /\ nCons > Cardinality(cuts)

\* C11: newIOCycle returns only with lambda = 1 and delta = 0; delta is set to
\* 0 only once lambda is already 1, neither parameter is moved back, and the
\* master is switched to binary variables only after the loop has returned.
C11_Returned == pc \in {"ioDone", "modeA", "bb", "done"}
C11_StagesInOrder ==
    /\ [](C11_Returned => lambda5 = 5 /\ delta = 0)
    /\ [][/\ (delta # 0 /\ delta' = 0) => lambda5 = 5
          /\ lambda5 = 5 => lambda5' = 5
          /\ delta = 0 => delta' = 0
          /\ (ptype = "LP" /\ ptype' = "MILP") => pc = "ioDone"]_vars
C11_LoopReturned == pc = "ioDone" /\ ptype = "LP" /\ lambda5 = 5 /\ delta = 0 /\ nrIter > 0

\* C12: a stage escalation of the stabilization loop (lambda set to 1, delta
\* set to 0, stop) is taken only in a pass in which the LP bound has failed
\* to improve for at least the 5th consecutive time.
C12_Escalation ==
    \/ lambda5' # lambda5
    \/ delta' # delta
    \/ pc = "io" /\ pc' \in {"ioDone", "ioPauseLast"}
C12_EscalatesAfterFive == [][C12_Escalation => streak' >= 5]_vars

\* C15: in every pass of the stabilization loop in which zLP exceeds the best
\* bound, the best bound becomes zLP and the non-improvement counter is reset
\* to 0; in every other pass the counter is incremented by one.
C15_CounterTracksImprovement ==
    [][nrIter' = nrIter + 1 =>
         IF zLP' > ioBestLB
         THEN ioBestLB' = zLP' /\ noImprov' = 0
         ELSE noImprov' = noImprov + 1]_vars

\* C20: in a pass of the stabilization loop made with lambda = 1 the
\* separation point yy passed to the subproblem is min(1, yStar + delta);
\* it equals the master LP optimum yStar once delta is 0.
C20_PlainPointOnceDeltaZero ==
    [][(nrIter' = nrIter + 1 /\ lambda5' = 5) =>
         /\ yy' = [jt \in JT(inp) |-> Min(YS, ySol'[jt] + delta')]
         /\ delta' = 0 => yy' = ySol']_vars
C20_FractionalPlainPass ==
    /\ pc = "io" /\ nrIter > 0 /\ lambda5 = 5 /\ delta = 0
    /\ yy = ySol
    /\ \E jt \in JT(inp) : ySol[jt] < YS
\* C20 as stated: whenever lambda = 1, yy equals yStar
C20_PlainPointWheneverLambdaOne ==
    [][(nrIter' = nrIter + 1 /\ lambda5' = 5) => yy' = ySol']_vars

\* a step in which solveSubPrimal is called, and the point it is called at
WorkerCalled == nrIter' # nrIter \/ nIters' # nIters \/ cbIter' # cbIter
WorkerArg == IF nrIter' # nrIter THEN yy' ELSE ySol'

\* C16: every optimality cut is tight at its own separation point ySol:
\* rhs - sum coeff*ySol = -zSub, so the cut is violated by (ySol, zHat)
\* exactly when zHat < zSub.
C16_OptimalityCutTight ==
    [][(WorkerCalled /\ cutType' = 2) =>
         LET c == wCut'[1]
         IN  /\ c.type = 2 /\ c.zc = -1
             /\ c.rhs - CutLhsY(inp, c, WorkerArg) = 0 - zSub'
             /\ (CutLhsY(inp, c, WorkerArg) + c.zc * zHat' > c.rhs) <=> (zHat' < zSub')]_vars
C16_CutOffPoint ==
    /\ cutType = 2 /\ wCut # <<>> /\ wCut[1].type = 2
    /\ zHat < zSub
    /\ \E jt \in JT(inp) : wCut[1].coeff[jt] # 0 /\ ySol[jt] # 0 /\ yy[jt] # 0

\* C17: when the subproblem is infeasible at ySol, the feasibility cut that
\* solveSubPrimal emits has no zHat term, is violated by ySol itself and is
\* satisfied by every binary y whose subproblem is feasible.
C17_FeasibilityCutSeparates ==
    [][(WorkerCalled /\ cutType' = 1) =>
         LET c == wCut'[1]
         IN  /\ c.type = 1 /\ c.zc = 0
             /\ SubInfeasible(inp, WorkerArg)
             /\ CutLhsY(inp, c, WorkerArg) > c.rhs
             /\ \A y \in FeasibleSetups(inp) : CutLhsY(inp, c, y) <= c.rhs]_vars
C17_InfeasiblePointCut ==
    /\ cutType = 1 /\ wCut # <<>> /\ wCut[1].type = 1
    /\ FeasibleSetups(inp) # {}
    /\ \E jt \in JT(inp) : wCut[1].coeff[jt] # 0

\* the point of the latest call of solveSubPrimal (when there was one)
LastArg == IF nIters + cbIter > 0 THEN ySol ELSE yy

C13_OneSolveAtATime ==
    /\ [](Cardinality(running) <= 1)
    /\ [][cbIter' # cbIter =>
            /\ running' = {}
            /\ wRhs = RhsOf(inp, ySol')
            /\ \E r \in SolveSubPrimal(inp, InitRhs(inp), ySol') : wCut' = <<r.cut>>]_vars
C13_CallbackInProgress ==
    /\ pc = "bb" /\ cbIter >= 1
    /\ \E call \in running : call.y # ySol /\ wRhs = RhsOf(inp, call.y)

\* C14: after Instance construction, for every item j and period t,
\* dcum[j][t] is the sum of d[j][s] over s >= t, dcum[j][t] >= dcum[j][t+1]
\* >= 0, and max_prod[j][t] = min((cap[t] - m[j][t]) / a[j][t], dcum[j][t])
\* is >= 0.
C14_CumulativeDemand ==
    pc \in {"built", "split"} =>
      \A j \in Items(inp), t \in Periods(inp) :
        /\ inp.dcum[j + 1][t + 1]
             = Sum([s \in t .. inp.nP - 1 |-> inp.d[<<j, s>>]], t .. inp.nP - 1)
        /\ inp.dcum[j + 1][t + 1] >= 0
        /\ t + 1 < inp.nP => inp.dcum[j + 1][t + 1] >= inp.dcum[j + 1][t + 2]
C14_MaxProdFormula ==
    pc \in {"built", "split"} =>
      \A j \in Items(inp), t \in Periods(inp) :
        inp.max_prod[j + 1][t + 1]
          = Min((inp.cap[t] - inp.m[<<j, t>>]) \div inp.a[<<j, t>>], inp.dcum[j + 1][t + 1])
C14_DcumAndMaxProd ==
    /\ C14_CumulativeDemand
    /\ C14_MaxProdFormula
    /\ pc \in {"built", "split"} =>
         \A j \in Items(inp), t \in Periods(inp) : inp.max_prod[j + 1][t + 1] >= 0

\* C18: the infeasible branch of solveSubPrimal takes entry t of the Farkas
\* vector as the multiplier of capacity.t, entry nP + j*nP + r as that of
\* demand.j.r and the entries from nP + nI*nP on, in (j, t, r >= t) order,
\* as those of logic.j.t.r; this is the order in which the rows were
\* created, and there are nI*nP*(nP+1)/2 logic rows.
C18_SplitMatchesRowOrder ==
    pc = "split" =>
      /\ Len(WorkerRows(inp)) = inp.nP + inp.nI * inp.nP + LogicCount(inp)
      /\ Cardinality(Tri(inp)) = LogicCount(inp)
      /\ \A t \in Periods(inp) :
            split[1].lambda[t] = "capacity." \o ToString(t)
      /\ \A jr \in JT(inp) :
            split[1].omega[jr] = "demand." \o ToString(jr[1]) \o "." \o ToString(jr[2])
      /\ DOMAIN split[1].epsilon = Tri(inp)
      /\ \A jtr \in Tri(inp) :
            split[1].epsilon[jtr] = "logic." \o ToString(jtr[1]) \o "."
                                      \o ToString(jtr[2]) \o "." \o ToString(jtr[3])
C18_SplitOfTwoItems == pc = "split" /\ inp.nI >= 2 /\ inp.nP >= 2 /\ split # <<>>

\* C21: in every pass of newIOCycle all components of the stability centre
\* yTilde and of the separation point yy lie in [0,1]; yTilde is all-ones
\* before the first pass, each pass replaces it by 0.5*yTilde + 0.5*yStar,
\* and yy = min(1, lambda*yStar + (1-lambda)*yTilde + delta) is computed
\* from the replaced yTilde.
C21_CentreAndPointInUnitBox ==
    /\ [](\A jt \in JT(inp) :
            /\ 0 <= yTilde[jt] /\ yTilde[jt] <= YS
            /\ 0 <= yy[jt] /\ yy[jt] <= YS)
    /\ [](nrIter = 0 => yTilde = [jt \in JT(inp) |-> YS])
    /\ [][nrIter' = nrIter + 1 =>
            /\ \A jt \in JT(inp) : 0 <= ySol'[jt] /\ ySol'[jt] <= YS
            /\ yTilde' = [jt \in JT(inp) |-> (yTilde[jt] + ySol'[jt]) \div 2]
            /\ yy' = [jt \in JT(inp) |->
                        Min(YS, (lambda5' * ySol'[jt] + (5 - lambda5') * yTilde'[jt]) \div 5
                                + delta')]]_vars
C21_SmoothedCentre ==
    /\ nrIter >= 2 /\ lambda5 = 1
    /\ \E jt \in JT(inp) :
         /\ 0 < yTilde[jt] /\ yTilde[jt] < YS \div 2
         /\ yy[jt] < YS /\ yy[jt] # ySol[jt] /\ yy[jt] # yTilde[jt]

\* C22: a callback invocation first reads the candidate (objective, best
\* bound, zHat, y), then solves the subproblem at that y, builds the cut,
\* adds that one cut as a lazy constraint and returns; the counter grows by one
\* per invocation; the cut depends on the y read only, of the callback's own
\* fields only the counter and the two bounds change, and the search is
\* still running when the invocation returns.
C22_CallbackInvocation ==
    [][/\ (running' # running /\ cbIter' = cbIter) =>
            \* the invocation starts: the candidate and the bounds are read
            /\ running = {}
            /\ \E cand \in Candidates :
                  running' = {[y |-> cand.y, zHat |-> cand.zHat, obj |-> cand.obj,
                               bestLB |-> Max(cbBestLB, BestBound),
                               bestUB |-> Min(cbBestUB, cand.obj)]}
            /\ lazy' = lazy /\ cbBestLB' = cbBestLB /\ cbBestUB' = cbBestUB
       /\ (cbIter' # cbIter \/ lazy' # lazy) =>
            \* the invocation that has read call ends
            \E call \in running :
               /\ ySol' = call.y /\ zHat' = call.zHat
               /\ \E r \in SolveSubPrimal(inp, InitRhs(inp), call.y) :
                     /\ cutType' = r.cutType /\ zSub' = r.zSub
                     /\ lazy' = lazy \cup {r.cut}
               /\ cbIter' = cbIter + 1
               /\ cbBestLB' = call.bestLB /\ cbBestUB' = call.bestUB
               /\ running' = running \ {call}
               /\ pc = "bb" /\ pc' = "bb"]_vars
C22_TwoInvocationsReturned ==
    /\ pc = "bb" /\ running = {} /\ cbIter >= 2 /\ Cardinality(lazy) >= 2
    /\ cbBestLB > 0 - INFTY /\ cbBestUB < INFTY

\* C23: a callback invocation adds no row to the master object held by
\* bendersCallbackScheme: from the return of the stabilization loop to the
\* end of the branch and bound run the master's rows are those the loop has
\* left, one per pass.
C23_MasterUntouchedBySearch ==
    /\ [][(algo = 3 /\ pc \in {"ioDone", "bb"}) => (cuts' = cuts /\ nCons' = nCons)]_vars
    /\ []((algo = 3 /\ pc \in {"ioDone", "bb", "done"}) => nCons = nrIter)
C23_SearchEndedWithLazyRows ==
    /\ algo = 3 /\ pc = "done" /\ cbIter >= 2
    /\ \E c \in lazy : c \notin cuts

\* C24: in both drivers every master solve of the stabilization loop is made
\* on the continuous LP and every later solve (the passes of bendersDual,
\* the search of bendersCallbackScheme) on the binary MILP; the problem type
\* changes to LP only at the start of the loop, to MILP only once, after the
\* loop has returned, and never back.
C24_LoopRunning == pc \in {"io", "ioPause", "ioPauseLast", "ioDone"}
C24_AfterSwitch == pc \in {"modeA", "bb", "done"}
C24_RelaxedThenBinary ==
    /\ [](C24_LoopRunning => ptype = "LP")
    /\ [](C24_AfterSwitch => ptype = "MILP")
    /\ [][/\ nrIter' # nrIter => (ptype = "LP" /\ ySol' \in RelaxedY(inp))
          /\ (nIters' # nIters \/ cbIter' # cbIter \/ running' # running) =>
                (ptype = "MILP" /\ ptype' = "MILP" /\ nrIter' = nrIter)
          /\ (nIters' # nIters \/ cbIter' # cbIter) => ySol' \in BinaryY(inp)
          /\ (ptype = "LP" /\ ptype' = "MILP") =>
                (pc = "ioDone" /\ pc' \in {"modeA", "bb"})
          /\ (ptype = "MILP" /\ ptype' = "LP") => (pc = "start" /\ nrIter = 0)
          /\ C24_AfterSwitch => (pc' \in {"modeA", "bb", "done", "crashed"})]_vars
C24_IntegerSolveAfterFractional ==
    /\ ptype = "MILP" /\ nrIter > 0 /\ nIters + cbIter >= 1
    /\ ySol \in BinaryY(inp)
    /\ \E jt \in JT(inp) : yTilde[jt] \notin {0, YS}

\* C25: in bendersDual ubBest never increases; a pass with an optimality cut
\* sets it to the smaller of its value and sum f*ySol + zSub, where the sum
\* f*ySol is the master objective minus zHat, so that ubBest is the least
\* such value of the passes so far; a pass with a feasibility cut leaves it
\* unchanged; every pass, the last one included, adds exactly one row to the
\* master.
C25_UpperBoundAndCutPerPass ==
    /\ [](nIters = 0 => (ubBest = INFTY /\ nrCuts = 0))
    /\ [][/\ ubBest' <= ubBest
          /\ nIters' # nIters =>
               /\ nIters' = nIters + 1
               /\ bestLB' - zHat' = SetupCost(inp, ySol')
               /\ cutType' = 2 =>
                    ubBest' = Min(ubBest, SetupCost(inp, ySol') + zSub')
               /\ cutType' = 1 => ubBest' = ubBest
               /\ cutType' \in {1, 2}
               /\ cuts' = cuts \cup {wCut'[1]}
               /\ nCons' = nCons + 1
               /\ nrCuts' = nrCuts + 1
               /\ pc' \in {"modeA", "done"}
          /\ nIters' = nIters => (ubBest' = ubBest /\ nrCuts' = nrCuts)]_vars
C25_FeasibilityPass ==
    /\ algo = 1 /\ pc = "modeA" /\ nIters >= 1 /\ nrCuts = nIters
    /\ cutType = 1 /\ wCut[1] \in cuts /\ CutLhsY(inp, wCut[1], ySol) > wCut[1].rhs
    /\ nCons = nrIter + nIters
    /\ ubBest = INFTY

C27_IncumbentNotUnderestimated ==
    /\ [](incumbent # <<>> =>
            /\ incumbent[1].y \in FeasibleSetups(inp)
            /\ incumbent[1].zHat >= SubOpt(inp, incumbent[1].y))
    /\ [][cbIter' # cbIter =>
            LET cand == [y |-> ySol', zHat |-> zHat']
                kept == CutLhsY(inp, wCut'[1], cand.y) + wCut'[1].zc * cand.zHat
                           <= wCut'[1].rhs
            IN  /\ wCut'[1] \in lazy'
                /\ kept => (~SubInfeasible(inp, cand.y) /\ cand.zHat >= SubOpt(inp, cand.y))
                /\ SubInfeasible(inp, cand.y) => ~kept
                /\ ~kept => incumbent' = incumbent
                /\ kept => (incumbent' # <<>> /\ incumbent'[1].y = cand.y
                              /\ incumbent'[1].zHat = cand.zHat)]_vars
C27_AcceptedAfterInfeasibleCandidate ==
    /\ pc = "bb" /\ cbIter >= 2 /\ running = {}
    /\ incumbent # <<>> /\ incumbent[1].y = ySol
    /\ cutType = 2 /\ zHat >= zSub
    /\ \E c \in lazy : c.type = 1

\* C28: after every callback invocation the callback's bestUB is at least
\* the optimal cost of the instance and bestLB <= bestUB; bestLB never
\* decreases and bestUB never increases.
C28_CallbackBoundsValid ==
    /\ []((cbIter >= 1 /\ MIPFeasible(inp)) => cbBestUB >= OptimalCost(inp))
    /\ [](cbIter >= 1 => cbBestLB <= cbBestUB)
    /\ [][cbBestLB' >= cbBestLB /\ cbBestUB' <= cbBestUB]_vars

\* C29: newIOCycle leaves its loop in exactly the 21st pass whose zLP does
\* not exceed the best bound so far (six increments of the counter and one
\* escalation in each of the three stages), however many improving passes
\* lie in between; that pass still solves the subproblem and adds its cut;
\* and the loop does come to an end.
C29_Stage == IF lambda5 = 1 THEN 0 ELSE IF delta # 0 THEN 1 ELSE 2
C29_LoopLeft == pc = "io" /\ pc' \in {"ioDone", "ioPauseLast"}
C29_ExitsAtStall21 ==
    /\ [](stalls <= 21)
    /\ [](pc \in {"io", "ioDone"} =>
            stalls = 7 * C29_Stage + (IF pc = "ioDone" THEN 7 ELSE noImprov))
    /\ [][/\ nrIter' = nrIter + 1 =>
               /\ stalls' = (IF zLP' > ioBestLB THEN stalls ELSE stalls + 1)
               /\ C29_LoopLeft <=> (stalls' = 21 /\ stalls = 20)
          /\ C29_LoopLeft =>
               /\ nrIter' = nrIter + 1
               /\ wRhs' = RhsOf(inp, yy')
               /\ wCut'[1] \in cuts' /\ nCons' = nCons + 1]_vars
    /\ (pc = "io") ~> (pc \in {"ioDone", "crashed"})
C29_LeftAfterImprovingPasses ==
    /\ pc = "ioDone" /\ stalls = 21 /\ nrIter >= 24 /\ nCons = nrIter
    /\ wCut # <<>> /\ wCut[1] \in cuts


\* C30: for the same ySol, solveSubDual returns the cut type, the zSub, the
\* cut coefficients and the cut right-hand side that solveSubPrimal can
\* return (up to the solver's choice among alternative dual solutions),
\* on the optimality path and on the feasibility path.
C30_WorkersAgree ==
    pc = "dual" =>
       /\ wDual[1].cutType = cutType
       /\ \E r \in SolveSubPrimal(inp, InitRhs(inp), ySol) :
             /\ wDual[1].zSub = r.zSub
             /\ wDual[1].cut.coeff = r.cut.coeff
             /\ wDual[1].cut.rhs = r.cut.rhs
====
